---- MODULE Spec2Model ----
(***************************************************************************)
(* A model of dns_cicd (src/dns_cicd/__init__.py): the SOA serial          *)
(* arithmetic, the build / check / deploy command line, and the git hooks  *)
(* (zone name derivation, commit checks, post-receive reconciliation).     *)
(*                                                                         *)
(* Python integers are unbounded and a serial needs the whole range        *)
(* 0 .. 2^32, which is wider than the integers of the model checker, so an *)
(* integer n is kept as the pair <<n \div 2^16, n % 2^16>>.                *)
(***************************************************************************)
EXTENDS Integers, Sequences, FiniteSets, TLC

VARIABLES
    clock,      \* the wall clock: [now |-> time.time(), today |-> %Y%m%d00]
    ticks,      \* seconds elapsed since the first state
    start,      \* the serial a chain of get_increased_serial calls started from
    cur,        \* the serial the chain has reached
    applied,    \* how many times get_increased_serial has been applied
    last,       \* the last application: [old, new, clock]
    other,      \* the serial that start is compared with
    cmp,        \* the last is_serial_increased call: [old, new, inc]
    \* the command line (main, build, check, deploy)
    deployFile, \* zones_deploy.json in the working directory, or None
    deployFile0,\* what deployFile held when the first command started
    stagedFile, \* zones_deploy.json in the build directory, or None
    sources,    \* the zone files of zones_subdir: stem -> contents
    gitDiff,    \* the zone files git diff names against the reference asked
    opt_all_zones, \* the --all-zones option
    cmd,        \* the subcommand run: "build", "check" or "deploy"
    pc,         \* where the process is
    ctxState,   \* ctxobj.state: None or [commit, serials]
    old_ref,    \* the reference changed_zones gave git
    changed_zone_files, \* build's local set
    todo,       \* the zones build's loop has still to visit
    usedClock,  \* zone -> the clock update_serial read, for the zones updated
    built,      \* the files of build_subdir: stem -> contents
    confOut,    \* the zones of the generated configuration, or None
    runs,       \* how many commands have been started
    prev,       \* what the previous build left: [serials, built]
    reconfigured, \* a reconfiguration command has been called
    reloaded,   \* the zones a reload command has been called for
    checked,    \* the zone files a check has processed
    \* the zone name derivation
    path,       \* the zone file's path
    zonedata,   \* its lines
    allowfancynames, \* git config dzonegit.allowfancynames: unset, true, false
    nameResult, \* what get_zone_name did: [raised, value, fname]
    \* the git hooks
    changes,    \* the files that differ between against and revision: file -> class
    facts,      \* zone file -> what compiling its new and old version gives
    autoupdate_serial, \* not dzonegit.noserialupdate
    hookPc,     \* where the hook is
    hookTodo,   \* the altered files check_updated_zones has still to visit
    hookErr,    \* the file the HookException raised names, or None
    replaced,   \* the files replace_serial rewrote: file -> new serial
    hookConf,   \* post_receive's configuration and standard input
    should_reconfig, \* post_receive: the zone files that call for a reconfiguration
    zones_to_reload, \* post_receive: the reload list, the names of the zones to reload
    \* the wildcards of a zone name
    wname,      \* get_zone_wildcards' argument, a string
    labels,     \* its list of labels
    wildPc,     \* where the generator is
    yielded     \* the items it has yielded, in order

serialVars == <<start, cur, applied, last, other, cmp>>

timeVars == <<clock, ticks>>

fileVars == <<deployFile, deployFile0, stagedFile, sources, gitDiff, opt_all_zones>>

procVars == <<cmd, pc, ctxState, old_ref, changed_zone_files, todo, usedClock,
              built, confOut, runs, prev>>

effectVars == <<reconfigured, reloaded, checked>>

cliVars == <<fileVars, procVars, effectVars>>

wildVars == <<wname, labels, wildPc, yielded>>

nameVars == <<path, zonedata, allowfancynames, nameResult, wildVars>>

postVars == <<should_reconfig, zones_to_reload>>

hookVars == <<changes, facts, autoupdate_serial, hookPc, hookTodo, hookErr,
              replaced, hookConf, postVars>>

vars == <<timeVars, serialVars, cliVars, nameVars, hookVars>>

-----------------------------------------------------------------------------
(* Bounds of the model.                                                    *)

\* How far around each landmark value (0, 10^9, now, today, 2^31, 2^32...)
\* the serials handed to the serial functions are drawn.
Spread == 1

\* Seconds the clock may advance during one run (the day does not change).
MaxTicks == 2

\* Successive applications of get_increased_serial in one chain.
MaxApply == 3

\* Commands run one after the other on the same files.
MaxRuns == 2

-----------------------------------------------------------------------------
(* Integers as two limbs of 16 bits.                                       *)

Half == 2^16

\* Python's None
None == [ty |-> "None"]

Norm(h, l) == <<h + (l \div Half), l % Half>>

Big(n) == Norm(0, n)

Add(a, b) == Norm(a[1] + b[1], a[2] + b[2])

Sub(a, b) == Norm(a[1] - b[1], a[2] - b[2])

Lt(a, b) == a[1] < b[1] \/ (a[1] = b[1] /\ a[2] < b[2])

Le(a, b) == a = b \/ Lt(a, b)

\* a % 2**32
Mod32(a) == <<a[1] % Half, a[2]>>

Zero == Big(0)

One == Big(1)

\* 2**32 - 1, the largest unsigned 32-bit serial
MaxU32 == <<Half - 1, Half - 1>>

IsU32(a) == Le(Zero, a) /\ Le(a, MaxU32)

-----------------------------------------------------------------------------
(* Python values: a serial is an int or the str of one.                    *)

PyInt(n) == [ty |-> "int", v |-> n]

\* str(n)
PyStr(n) == [ty |-> "str", v |-> n]

\* int(x): of an int, or of the decimal text of one
ToInt(x) == x.v

-----------------------------------------------------------------------------
(* Program constants.                                                      *)

\* 1e9: below it nothing is a Unix-time serial
E9 == 1000000000

\* 2e9: below it nothing is a YYYYMMDDnn serial
TwoE9 == 2000000000

\* 2**31 - 1, the bound of is_serial_increased
HalfRange == 2147483647

\* the serial a zone without a recorded serial starts from
DefaultSerial == 2000010100

-----------------------------------------------------------------------------
(* The serial arithmetic.                                                  *)

is_serial_increased_le(old, new) ==
    LET diff == Mod32(Sub(ToInt(new), ToInt(old)))
    IN  Le(Zero, diff) /\ Lt(diff, Big(HalfRange))

is_serial_increased(old, new) ==
    LET diff == Mod32(Sub(ToInt(new), ToInt(old)))
    IN  Lt(Zero, diff) /\ Lt(diff, Big(HalfRange))

\* the date test made non-strict: a serial already at today's code is "bumped"
\* to today's code again
get_increased_serial_le(old, c) ==
    LET o == ToInt(old)
    IN  IF Lt(Big(E9), o) /\ Lt(o, c.now)
          THEN PyStr(c.now)
          ELSE IF Lt(Big(TwoE9), o) /\ Le(o, c.today)
                 THEN PyStr(c.today)
                 ELSE PyStr(Add(o, One))

\* the two tests taken in the other order
get_increased_serial_swapped(old, c) ==
    LET o == ToInt(old)
    IN  IF Lt(Big(TwoE9), o) /\ Lt(o, c.today)
          THEN PyStr(c.today)
          ELSE IF Lt(Big(E9), o) /\ Lt(o, c.now)
                 THEN PyStr(c.now)
                 ELSE PyStr(Add(o, One))

get_increased_serial(old, c) ==
    LET o == ToInt(old)
    IN  IF Lt(Big(E9), o) /\ Lt(o, c.now)
          THEN PyStr(c.now)
          ELSE IF Lt(Big(TwoE9), o) /\ Lt(o, c.today)
                 THEN PyStr(c.today)
                 ELSE PyStr(Add(o, One))

-----------------------------------------------------------------------------
(* The clock: int(time.time()) and date.today() as %Y%m%d00.  The samples  *)
(* are 2026-11-02 12:00:00, 2033-12-01 12:00:00 (Unix time has passed      *)
(* 2*10^9), 2034-06-16 09:06:39 (one second before Unix time reaches the   *)
(* day's own code, the date the source names) and 2035-01-01 12:00:00.     *)

Clocks ==
    { [now |-> Big(1793620800), today |-> Big(2026110200)],
      [now |-> Big(2017051200), today |-> Big(2033120100)],
      [now |-> Big(2034061599), today |-> Big(2034061600)],
      [now |-> Big(2051265600), today |-> Big(2035010100)] }

Tick(c) == [c EXCEPT !.now = Add(@, One)]

\* The values the serial samples are taken around.
Landmarks(c) ==
    { Zero, Big(E9), Big(TwoE9), Big(DefaultSerial), c.now, c.today,
      Sub(c.today, Big(100)), Big(HalfRange), MaxU32 }

SerialSamples(c) ==
    { n \in { Add(l, Big(k)) : l \in Landmarks(c), k \in (0 - Spread)..Spread } :
        IsU32(n) }

SerialInputs(c) ==
    { PyInt(n) : n \in SerialSamples(c) } \cup { PyStr(Big(DefaultSerial)) }

-----------------------------------------------------------------------------
(* The serial functions are not being applied.                             *)

SerialIdle ==
    /\ start = None
    /\ cur = None
    /\ applied = 0
    /\ last = None
    /\ other = None
    /\ cmp = None

-----------------------------------------------------------------------------
(* The command line is not running.                                        *)

CliIdle ==
    /\ deployFile = None
    /\ deployFile0 = None
    /\ stagedFile = None
    /\ sources = <<>>
    /\ gitDiff = {}
    /\ opt_all_zones = FALSE
    /\ cmd = "none"
    /\ pc = "idle"
    /\ ctxState = None
    /\ old_ref = "none"
    /\ changed_zone_files = {}
    /\ todo = <<>>
    /\ usedClock = <<>>
    /\ built = <<>>
    /\ confOut = None
    /\ runs = 0
    /\ prev = None
    /\ reconfigured = FALSE
    /\ reloaded = {}
    /\ checked = {}

-----------------------------------------------------------------------------
(* No zone name is being derived.                                          *)

WildIdle ==
    /\ wname = <<>>
    /\ labels = <<>>
    /\ wildPc = "idle"
    /\ yielded = <<>>

NameIdle ==
    /\ path = None
    /\ zonedata = <<>>
    /\ allowfancynames = "unset"
    /\ nameResult = None
    /\ WildIdle

-----------------------------------------------------------------------------
(* No hook is running.                                                     *)

HookIdle ==
    /\ changes = <<>>
    /\ facts = <<>>
    /\ autoupdate_serial = FALSE
    /\ hookPc = "idle"
    /\ hookTodo = <<>>
    /\ hookErr = None
    /\ replaced = <<>>
    /\ hookConf = None
    /\ should_reconfig = <<>>
    /\ zones_to_reload = <<>>

-----------------------------------------------------------------------------
(* The serial functions, applied to sampled serials.                       *)

SerialInit ==
    /\ clock \in Clocks
    /\ ticks = 0
    /\ start \in SerialInputs(clock)
    /\ cur = start
    /\ applied = 0
    /\ last = None
    /\ other = None
    /\ cmp = None
    /\ CliIdle
    /\ NameIdle
    /\ HookIdle

\* new = get_increased_serial(old)
SerialApply ==
    /\ applied < MaxApply
    /\ cur' = get_increased_serial(cur, clock)
    /\ last' = [old |-> cur, new |-> cur', clock |-> clock]
    /\ applied' = applied + 1
    /\ UNCHANGED <<clock, ticks, start, other, cmp, cliVars, nameVars, hookVars>>

\* a second passes
SerialTick ==
    /\ ticks < MaxTicks
    /\ clock' = Tick(clock)
    /\ ticks' = ticks + 1
    /\ UNCHANGED <<start, cur, applied, last, other, cmp, cliVars, nameVars, hookVars>>

SerialNext == SerialApply \/ SerialTick

SpecSerial == SerialInit /\ [][SerialNext]_vars

-----------------------------------------------------------------------------
(* is_serial_increased, applied to two sampled serials.                    *)

CompareInit ==
    /\ clock \in Clocks
    /\ ticks = 0
    /\ start \in SerialInputs(clock)
    /\ other \in SerialInputs(clock)
    /\ cur = start
    /\ applied = 0
    /\ last = None
    /\ cmp = None
    /\ CliIdle
    /\ NameIdle
    /\ HookIdle

\* is_serial_increased(old, new)
SerialCompare ==
    /\ cmp = None
    /\ cmp' = [old |-> start, new |-> other,
               inc |-> is_serial_increased(start, other)]
    /\ UNCHANGED <<clock, ticks, start, cur, applied, last, other, cliVars, nameVars, hookVars>>

CompareNext == SerialCompare

SpecCompare == CompareInit /\ [][CompareNext]_vars

-----------------------------------------------------------------------------
(* The wildcards of a zone name.  A string is a tuple of characters, a     *)
(* list of labels a tuple of strings.                                      *)

\* The longest zone name tried.
MaxNameLen == 5

\* The characters of the zone names tried: two letters and the dot.
NameChars == {"a", "b", "."}

ZoneNames == UNION { [1..n -> NameChars] : n \in 0..MaxNameLen }

\* name.split("."): the pieces between the dots, at least one, empty ones
\* included
RECURSIVE split(_)
split(str) ==
    LET dots == { i \in DOMAIN str : str[i] = "." }
    IN  IF dots = {} THEN <<str>>
        ELSE LET i == CHOOSE i \in dots : \A j \in dots : i <= j
             IN  <<SubSeq(str, 1, i - 1)>> \o split(SubSeq(str, i + 1, Len(str)))

\* ".".join(list)
RECURSIVE join(_)
join(list) ==
    IF list = <<>> THEN <<>>
    ELSE IF Len(list) = 1 THEN list[1]
    ELSE list[1] \o <<".">> \o join(Tail(list))

\* the first label left as it is
Star_none(list) == list

\* labels[0] = "*"
Star(list) == [list EXCEPT ![1] = <<"*">>]

WildInit ==
    /\ clock \in {CHOOSE c \in Clocks : TRUE}
    /\ ticks = 0
    /\ SerialIdle
    /\ CliIdle
    /\ HookIdle
    /\ path = None
    /\ zonedata = <<>>
    /\ allowfancynames = "unset"
    /\ nameResult = None
    /\ wname \in ZoneNames
    /\ labels = <<>>
    /\ wildPc = "start"
    /\ yielded = <<>>

\* get_zone_wildcards up to its first yield, and the split that follows
\* when the generator is resumed
WildcardsFirst ==
    /\ wildPc = "start"
    /\ yielded' = Append(yielded, wname)
    /\ labels' = split(wname)
    /\ wildPc' = "loop"
    /\ UNCHANGED <<wname, path, zonedata, allowfancynames, nameResult,
                   timeVars, serialVars, cliVars, hookVars>>

\* One turn of the loop: the first label becomes *, the joined labels are
\* yielded and, when the generator is resumed, the first label is dropped.
WildcardsLoop ==
    /\ wildPc = "loop"
    /\ labels # <<>>
    /\ yielded' = Append(yielded, join(Star(labels)))
    /\ labels' = Tail(Star(labels))
    /\ UNCHANGED <<wname, wildPc, path, zonedata, allowfancynames, nameResult,
                   timeVars, serialVars, cliVars, hookVars>>

\* The list of labels is empty: the generator returns.
WildcardsReturn ==
    /\ wildPc = "loop"
    /\ labels = <<>>
    /\ wildPc' = "done"
    /\ UNCHANGED <<wname, labels, yielded, path, zonedata, allowfancynames,
                   nameResult, timeVars, serialVars, cliVars, hookVars>>

WildNext == WildcardsFirst \/ WildcardsLoop \/ WildcardsReturn

\* The generator is resumed until it returns.
SpecWild == WildInit /\ [][WildNext]_vars /\ WF_vars(WildNext)

-----------------------------------------------------------------------------
(* Claims about the serial arithmetic.                                     *)

\* new - old for new >= old, and 2^32 - (old - new) for new < old: the
\* difference modulo 2^32 of two unsigned 32-bit serials, without Mod32.
WrapDiff(old, new) ==
    IF Le(old, new) THEN Sub(new, old)
                    ELSE Sub(Add(MaxU32, One), Sub(old, new))

\* C1: for every unsigned 32-bit serial a, is_increased(a, next_serial(a)) is
\* true, whichever branch of next_serial is taken, a = 2^32 - 1 and a = 0
\* included.
C1_NextSerialIsIncreased ==
    (applied > 0 /\ IsU32(ToInt(last.old)))
        => is_serial_increased(last.old, last.new)

\* C1 witness: next_serial has been applied to 2^32 - 1.
C1_Witness ==
    /\ applied = 1
    /\ ToInt(last.old) = MaxU32
    /\ ToInt(last.new) = Add(MaxU32, One)

\* C2: for unsigned 32-bit old and new, is_increased(old, new) is true if and
\* only if (new - old) mod 2^32 is strictly greater than 0 and strictly less
\* than 2^31 - 1; so is_increased(a, a) is false, is_increased(2^32 - 1, 0)
\* is true and is_increased(0, 2^32 - 1) is false.
C2_IncreasedIffWrapDiff ==
    cmp # None =>
        LET o == ToInt(cmp.old)
            n == ToInt(cmp.new)
            d == WrapDiff(o, n)
        IN  /\ cmp.inc <=> (Lt(Zero, d) /\ Lt(d, Big(HalfRange)))
            /\ o = n => ~cmp.inc
            /\ (o = MaxU32 /\ n = Zero) => cmp.inc
            /\ (o = Zero /\ n = MaxU32) => ~cmp.inc

\* C2 witness: is_increased(2^32 - 1, 0) has been computed, and is true.
C2_Witness ==
    /\ cmp # None
    /\ ToInt(cmp.old) = MaxU32
    /\ ToInt(cmp.new) = Zero
    /\ cmp.inc

\* C3: next_serial(old) is the current Unix time when 10^9 < old < now;
\* otherwise today's YYYYMMDD00 code when 2*10^9 < old < today's code;
\* otherwise old + 1.
C3_NextSerialBranches ==
    applied > 0 =>
        LET o == ToInt(last.old)
            c == last.clock
            ts == Lt(Big(E9), o) /\ Lt(o, c.now)
            dt == Lt(Big(TwoE9), o) /\ Lt(o, c.today)
        IN  ToInt(last.new) =
                CASE ts -> c.now
                  [] ~ts /\ dt -> c.today
                  [] OTHER -> Add(o, One)

\* C3 witness: the date-style branch was taken, the timestamp-style one not.
C3_Witness ==
    /\ applied > 0
    /\ Lt(Big(TwoE9), ToInt(last.old))
    /\ Lt(ToInt(last.old), last.clock.today)
    /\ ToInt(last.new) = last.clock.today

\* The chain started from a date-style serial older than today.
DateStyleStart == Lt(Big(TwoE9), ToInt(start)) /\ Lt(ToInt(start), clock.today)

\* C4: applied repeatedly on one day from a date-style serial older than
\* today, only the first application jumps to today's YYYYMMDD00 code and
\* every later one returns the previous value plus 1.
C4_OneJumpPerDay ==
    (DateStyleStart /\ applied > 0) =>
        IF applied = 1
          THEN ToInt(last.new) = clock.today
          ELSE ToInt(last.new) = Add(ToInt(last.old), One)

\* C4 while the Unix time is below 2*10^9 (until 2033-05-18), where no
\* date-style serial can be taken for a timestamp.
C4_OneJumpPerDayBefore2033 ==
    Lt(clock.now, Big(TwoE9)) => C4_OneJumpPerDay

\* C11: every serial next_serial returns for an unsigned 32-bit input is
\* itself an unsigned 32-bit integer in 0..2^32 - 1, and so is every serial
\* recorded after any sequence of applications.
C11_NextSerialIsU32 ==
    (applied > 0 /\ IsU32(ToInt(last.old))) => IsU32(ToInt(last.new))

\* C11 for every input below 2^32 - 1: the result is at most the input plus
\* 1, the current time or today's code, all below 2^32.
C11_U32BelowMax ==
    (applied > 0 /\ Lt(ToInt(last.old), MaxU32)) => IsU32(ToInt(last.new))

-----------------------------------------------------------------------------
(* Zone names.  A name is a tuple of characters; ".zone" and ".txt" stand   *)
(* for the characters of a suffix.                                         *)

\* str.lower
LowerChar(ch) == CASE ch = "A" -> "a" [] ch = "B" -> "b" [] OTHER -> ch

lower(str) == [i \in 1..Len(str) |-> LowerChar(str[i])]

\* the characters of str.maketrans("", "", "/_,:-+*%^&#$")
Punctuation == {"/", "_", ",", ":", "-", "+", "*", "%", "^", "&", "#", "$"}

Keep(ch) == ch \notin Punctuation

\* str.translate(tt)
translate(str) == SelectSeq(str, Keep)

\* Path(path).stem: the last component without its last suffix
Stem(p) ==
    LET dots == { i \in 2..Len(p.name) : p.name[i] \in {".", ".zone", ".txt"} }
    IN  IF dots = {} THEN p.name
        ELSE SubSeq(p.name, 1, (CHOOSE i \in dots : \A j \in dots : j <= i) - 1)

\* What get_zone_origin returns when no $ORIGIN is found.
NoOrigin == <<>>

\* the SOA line taken for any other line: the scan does not stop at it
get_zone_origin_no_break(data) ==
    LET hits == { i \in DOMAIN data : data[i].k = "origin" }
    IN  IF hits = {} THEN NoOrigin
        ELSE lower(data[CHOOSE i \in hits : \A j \in hits : i <= j].name)

\* get_zone_origin: the lines are read until the SOA record; the first
\* "$ORIGIN name." line gives the name, lower-cased.  A line is
\* [k |-> "soa"], [k |-> "origin", name |-> n] ($ORIGIN n.),
\* [k |-> "relative", name |-> n] ($ORIGIN n, which the pattern does not
\* match) or [k |-> "other"].
get_zone_origin(data) ==
    LET hits == { i \in DOMAIN data : data[i].k \in {"soa", "origin"} }
    IN  IF hits = {} THEN NoOrigin
        ELSE LET i == CHOOSE i \in hits : \A j \in hits : i <= j
             IN  IF data[i].k = "origin" THEN lower(data[i].name) ELSE NoOrigin

\* get_config("dzonegit.allowfancynames", bool): None when unset
get_config_bool(v) == v = "true"

\* get_zone_name: the value returned, or the HookException raised
get_zone_name(p, data, allow) ==
    LET stemname == lower(Stem(p))
        originname == get_zone_origin(data)
    IN  IF originname # NoOrigin
          THEN IF translate(stemname) # translate(originname)
                    /\ ~get_config_bool(allow)
                 THEN [raised |-> TRUE, value |-> originname, fname |-> p]
                 ELSE [raised |-> FALSE, value |-> originname, fname |-> p]
          ELSE [raised |-> FALSE, value |-> stemname, fname |-> p]

\* The names zone files and $ORIGIN lines carry.
Names ==
    { <<"a", "b">>, <<"A", "b">>, <<"a", "-", "b">>, <<"a", "/", "b">>,
      <<"a", ".", "b">>, <<"b">> }

\* Lines of a zone file before and after its SOA record.
MaxLines == 2

Lines ==
    { [k |-> "soa"], [k |-> "other"] }
    \cup { [k |-> "origin", name |-> n] : n \in Names }
    \cup { [k |-> "relative", name |-> n] : n \in {<<"b">>} }

ZoneDatas == UNION { [1..n -> Lines] : n \in 0..MaxLines }

Paths == { [parent |-> "zones", name |-> Append(n, ".zone")] :
             n \in Names \ {<<"a", "/", "b">>} }

NameInit ==
    /\ clock \in {CHOOSE c \in Clocks : TRUE}
    /\ ticks = 0
    /\ SerialIdle
    /\ CliIdle
    /\ path \in Paths
    /\ zonedata \in ZoneDatas
    /\ allowfancynames \in {"unset", "true", "false"}
    /\ nameResult = None
    /\ WildIdle
    /\ HookIdle

\* zname = get_zone_name(f, zonedata)
GetZoneName ==
    /\ nameResult = None
    /\ nameResult' = get_zone_name(path, zonedata, allowfancynames)
    /\ UNCHANGED <<path, zonedata, allowfancynames, wildVars, timeVars, serialVars,
                   cliVars, hookVars>>

NameNext == GetZoneName

SpecName == NameInit /\ [][NameNext]_vars

-----------------------------------------------------------------------------
(* The command line: main loads the deployed state, then build, check or   *)
(* deploy runs.                                                            *)

Zones == {"a", "b"}

ZONES_SUFFIX == ".zone"

\* a zone file of zones_subdir
ZoneFile(z) == [stem |-> z, suffix |-> ZONES_SUFFIX]

ZoneFiles == { ZoneFile(z) : z \in Zones }

\* zone(zone_file): the basename without its suffix
zone(zone_file) == zone_file.stem

\* d[k] = v
Put(d, k, v) == [x \in (DOMAIN d) \cup {k} |-> IF x = k THEN v ELSE d[x]]

\* f"{x}": the decimal text of a serial, whether an int or a str holds it
Fmt(x) == x.v

\* The text of a built file where no serial was substituted.
NoSerial == <<>>

\* The trees of zones_subdir: each zone file present or not, with or without
\* the "1 ; SERIALAUTOUPDATE" placeholder SERIAL_RE matches.
SourceTrees ==
    UNION { [D -> [ph : BOOLEAN]] : D \in SUBSET ZoneFiles }

\* The serials a deployed state may record: two plain numbers and yesterday's
\* date code.
DeployedSerials(c) ==
    { PyInt(Big(5)), PyInt(Big(7)), PyInt(Sub(c.today, Big(100))) }

\* What zones_deploy.json may hold: the fields of State, and in one case a
\* conf_hashes field too.
DeployStates(c) ==
    { [commit |-> "c1", serials |-> f, conf_hashes |-> "nokey"] :
        f \in UNION { [D -> DeployedSerials(c)] : D \in SUBSET Zones } }
    \cup
    { [commit |-> "c1", serials |-> [z \in Zones |-> PyInt(Big(5))],
       conf_hashes |-> "h1"] }

\* What a state file found in the build directory may hold.
StagedStates ==
    { [commit |-> "c2",
       serials |-> [z \in Zones |-> IF z = "a" THEN PyInt(Big(5)) ELSE PyInt(Big(8))],
       conf_hashes |-> h] : h \in {"nokey", "h2"} }

\* The clocks the command line is run under.
CliClocks == { c \in Clocks : Lt(c.now, Big(2034000000)) }

Init ==
    /\ clock \in CliClocks
    /\ ticks = 0
    /\ SerialIdle
    /\ deployFile \in {None} \cup DeployStates(clock)
    /\ deployFile0 = deployFile
    /\ stagedFile \in {None} \cup StagedStates
    /\ sources \in SourceTrees
    /\ gitDiff \in SUBSET ZoneFiles
    /\ opt_all_zones \in BOOLEAN
    /\ cmd = "none"
    /\ pc = "shell"
    /\ ctxState = None
    /\ old_ref = "none"
    /\ changed_zone_files = {}
    /\ todo = <<>>
    /\ usedClock = <<>>
    /\ built = <<>>
    /\ confOut = None
    /\ runs = 0
    /\ prev = None
    /\ reconfigured = FALSE
    /\ reloaded = {}
    /\ checked = {}
    /\ NameIdle
    /\ HookIdle

\* State(**json.load(state_file)): a field State does not declare is a
\* TypeError, which main does not catch
LoadState(file) == [commit |-> file.commit, serials |-> file.serials]

\* main: a process starts, with one subcommand, and loads the deployed state
\* (OSError: there is none, state stays None).
Main ==
    /\ pc \in {"shell", "done"}
    /\ runs < MaxRuns
    /\ runs' = runs + 1
    /\ cmd' \in {"build", "check", "deploy"}
    /\ prev' = IF pc = "done" /\ cmd = "build"
                 THEN [serials |-> IF ctxState = None THEN <<>> ELSE ctxState.serials,
                       built |-> built]
                 ELSE None
    /\ IF deployFile = None
         THEN ctxState' = None /\ pc' = "cmd"
         ELSE IF deployFile.conf_hashes # "nokey"
                THEN ctxState' = None /\ pc' = "crashed"
                ELSE ctxState' = LoadState(deployFile) /\ pc' = "cmd"
    /\ old_ref' = "none"
    /\ changed_zone_files' = {}
    /\ todo' = <<>>
    /\ usedClock' = <<>>
    /\ confOut' = None
    /\ UNCHANGED <<built, timeVars, serialVars, fileVars, effectVars, nameVars, hookVars>>

\* The orders in which a dict built from glob's listing may be visited.
Orders(S) ==
    { q \in UNION { [1..n -> S] : n \in {Cardinality(S)} } :
        \A i, j \in DOMAIN q : i # j => q[i] # q[j] }

\* CtxObj.changed_zones: the reference is the deployed commit, or HEAD~1
\* when there is no state
changed_zones_ref == IF ctxState # None THEN ctxState.commit ELSE "HEAD~1"

\* build, up to its loop: all_zones and changed_zone_files
BuildStart ==
    /\ pc = "cmd"
    /\ cmd = "build"
    /\ old_ref' = changed_zones_ref
    /\ changed_zone_files' = gitDiff
    /\ todo' \in Orders({ zone(zf) : zf \in DOMAIN sources })
    /\ pc' = "loop"
    /\ UNCHANGED <<cmd, ctxState, usedClock, built, confOut, runs, prev,
                   timeVars, serialVars, fileVars, effectVars, nameVars, hookVars>>

\* the --all-zones option left out of the test
NeedsUpdate_no_override(zf, z) ==
    \/ zf \in changed_zone_files
    \/ z \notin DOMAIN ctxState.serials

\* the test of build's loop
NeedsUpdate(zf, z) ==
    \/ zf \in changed_zone_files
    \/ z \notin DOMAIN ctxState.serials
    \/ opt_all_zones

\* State.update_serial
update_serial(serials, z, c) ==
    Put(serials, z,
        get_increased_serial(
            IF z \in DOMAIN serials THEN serials[z] ELSE PyInt(Big(DefaultSerial)),
            c))

\* generate: the source with the placeholder, if it has one, replaced by the
\* zone's serial
generate(serials, z, src) ==
    IF src.ph THEN [src |-> src, serial |-> Fmt(serials[z])]
              ELSE [src |-> src, serial |-> NoSerial]

\* One turn of build's loop.  With no state, ctxobj.state is None and both
\* ctxobj.state.serials and ctxobj.state.update_serial raise AttributeError.
BuildZone ==
    /\ pc = "loop"
    /\ todo # <<>>
    /\ LET z == Head(todo)
           zf == ZoneFile(z)
       IN  IF ctxState = None
             THEN /\ pc' = "crashed"
                  /\ UNCHANGED <<ctxState, usedClock, built, todo>>
             ELSE LET upd == NeedsUpdate(zf, z)
                      serials1 == IF upd THEN update_serial(ctxState.serials, z, clock)
                                         ELSE ctxState.serials
                  IN  /\ ctxState' = [ctxState EXCEPT !.serials = serials1]
                      /\ usedClock' = IF upd THEN Put(usedClock, z, clock)
                                             ELSE usedClock
                      /\ built' = Put(built, zf, generate(serials1, z, sources[zf]))
                      /\ todo' = Tail(todo)
                      /\ pc' = "loop"
    /\ UNCHANGED <<cmd, old_ref, changed_zone_files, confOut, runs, prev,
                   timeVars, serialVars, fileVars, effectVars, nameVars, hookVars>>

\* generate_config, and build returns
BuildConfig ==
    /\ pc = "loop"
    /\ todo = <<>>
    /\ confOut' = [zones |-> { zone(zf) : zf \in DOMAIN sources }]
    /\ pc' = "done"
    /\ UNCHANGED <<cmd, ctxState, old_ref, changed_zone_files, todo, usedClock,
                   built, runs, prev, timeVars, serialVars, fileVars, effectVars, nameVars, hookVars>>

\* check: prints a line
Check ==
    /\ pc = "cmd"
    /\ cmd = "check"
    /\ pc' = "done"
    /\ UNCHANGED <<cmd, ctxState, old_ref, changed_zone_files, todo, usedClock,
                   built, confOut, runs, prev,
                   timeVars, serialVars, fileVars, effectVars, nameVars, hookVars>>

\* deploy: prints a line
Deploy ==
    /\ pc = "cmd"
    /\ cmd = "deploy"
    /\ pc' = "done"
    /\ UNCHANGED <<cmd, ctxState, old_ref, changed_zone_files, todo, usedClock,
                   built, confOut, runs, prev,
                   timeVars, serialVars, fileVars, effectVars, nameVars, hookVars>>

\* a second passes
CliTick ==
    /\ ticks < MaxTicks
    /\ clock' = Tick(clock)
    /\ ticks' = ticks + 1
    /\ UNCHANGED <<serialVars, cliVars, nameVars, hookVars>>

Next ==
    \/ Main
    \/ BuildStart
    \/ BuildZone
    \/ BuildConfig
    \/ Check
    \/ Deploy
    \/ CliTick

Spec == Init /\ [][Next]_vars

-----------------------------------------------------------------------------
(* Claims about the command line.                                          *)

\* The zones of the catalog: one per zone file of zones_subdir.
Catalog == { zone(zf) : zf \in DOMAIN sources }

BuildDone == pc = "done" /\ cmd = "build"

\* The serials of the state build has assembled.
NewSerials == IF ctxState = None THEN <<>> ELSE ctxState.serials

\* C5: in build, a catalog zone's serial in the new state is next_serial of
\* its current serial exactly when its file is in the change set, or it has
\* no recorded serial, or the all-zones override is set, and is unchanged
\* otherwise; hence a second build with an empty change set and no override
\* leaves the serial of every zone already in the state unchanged, and its
\* built file identical.
C5_BuildSerials ==
    (BuildDone /\ ctxState # None) =>
        /\ \A z \in Catalog :
              LET recorded == z \in DOMAIN deployFile.serials
                  current == IF recorded THEN deployFile.serials[z]
                                         ELSE PyInt(Big(DefaultSerial))
              IN  IF ZoneFile(z) \in gitDiff \/ ~recorded \/ opt_all_zones
                    THEN /\ z \in DOMAIN usedClock
                         /\ ctxState.serials[z] =
                                get_increased_serial(current, usedClock[z])
                    ELSE /\ z \notin DOMAIN usedClock
                         /\ ctxState.serials[z] = deployFile.serials[z]
        /\ (prev # None /\ gitDiff = {} /\ ~opt_all_zones) =>
              \A z \in Catalog \cap DOMAIN deployFile.serials :
                  /\ ctxState.serials[z] = prev.serials[z]
                  /\ built[ZoneFile(z)] = prev.built[ZoneFile(z)]

\* C5 witness: a second build with an empty change set and no override has
\* finished, over a zone already in the state and a zone new to it.
C5_Witness ==
    /\ BuildDone
    /\ ctxState # None
    /\ prev # None
    /\ gitDiff = {}
    /\ ~opt_all_zones
    /\ \E z \in Catalog : z \in DOMAIN deployFile.serials
    /\ \E z \in Catalog : z \notin DOMAIN deployFile.serials

\* C6: with no prior state, build runs to completion: the change set is
\* computed against the parent of HEAD and every catalog zone is assigned
\* next_serial(2000010100), which is substituted into its built file.
C6_FirstBuildCompletes ==
    (deployFile = None /\ cmd = "build") =>
        /\ pc # "crashed"
        /\ pc = "done" =>
              /\ old_ref = "HEAD~1"
              /\ \A z \in Catalog :
                    /\ z \in DOMAIN usedClock
                    /\ NewSerials[z] =
                          get_increased_serial(PyInt(Big(DefaultSerial)), usedClock[z])
                    /\ sources[ZoneFile(z)].ph =>
                          built[ZoneFile(z)].serial = Fmt(NewSerials[z])

\* C7: when build finishes, the new state has been serialized to a staging
\* state file distinct from the deployed one, and the deployed state file
\* holds what it held before.
C7_BuildWritesStagedState ==
    BuildDone =>
        /\ stagedFile # None
        /\ stagedFile.serials = NewSerials
        /\ deployFile = deployFile0

\* The zones whose serial differs between two states.
SerialDiffers(d, t) ==
    { z \in (DOMAIN d.serials) \cup (DOMAIN t.serials) :
        \/ z \notin DOMAIN d.serials
        \/ z \notin DOMAIN t.serials
        \/ ToInt(d.serials[z]) # ToInt(t.serials[z]) }

\* C8: deploy decides from the deployed and staged states: a config hash
\* that differs triggers a full reconfigure and leaves the reload list
\* empty; otherwise there is no reconfigure and the reload list is the set
\* of zones whose serial differs between the two states.
C8_DeployFromStates ==
    (pc = "done" /\ cmd = "deploy" /\ deployFile # None /\ stagedFile # None) =>
        IF deployFile.conf_hashes # stagedFile.conf_hashes
          THEN reconfigured /\ reloaded = {}
          ELSE ~reconfigured /\ reloaded = SerialDiffers(deployFile, stagedFile)

-----------------------------------------------------------------------------
(* The git hooks: check_updated_zones (the commit checks) and post_receive.*)

HookFile(n) == [parent |-> "", name |-> n]

ZoneHookFiles == { HookFile(<<"a", "b", ".zone">>), HookFile(<<"b", ".zone">>) }

OtherHookFiles == { HookFile(<<"x", ".txt">>) }

\* git lists paths in sorted order
HookOrder ==
    << HookFile(<<"a", "b", ".zone">>), HookFile(<<"b", ".zone">>),
       HookFile(<<"x", ".txt">>) >>

\* Path.suffix
Suffix(p) ==
    IF Len(p.name) > 1 /\ p.name[Len(p.name)] \in {".zone", ".txt"}
      THEN p.name[Len(p.name)]
      ELSE ""

\* get_file_contents: ab.zone has no $ORIGIN, b.zone says $ORIGIN ab.
HookData(f) ==
    IF f = HookFile(<<"b", ".zone">>)
      THEN << [k |-> "origin", name |-> <<"a", "b">>], [k |-> "soa"] >>
      ELSE << [k |-> "other"], [k |-> "soa"] >>

\* The change classes git reports with --no-renames for a zone file.
ChangeClasses == {"A", "M", "D"}

ChangeSets ==
    UNION { { c \in [D -> ChangeClasses] :
                \A f \in D \cap OtherHookFiles : c[f] = "M" } :
            D \in SUBSET (ZoneHookFiles \cup OtherHookFiles) }

\* the filter not handed to git: every changed path is listed
get_altered_files_unfiltered(diff_filter) ==
    SelectSeq(HookOrder, LAMBDA f : f \in DOMAIN changes)

\* get_altered_files(against, diff_filter, revision): the paths whose class
\* is in the filter, in git's order
get_altered_files(diff_filter) ==
    SelectSeq(HookOrder,
              LAMBDA f : f \in DOMAIN changes /\ changes[f] \in diff_filter)

\* What compile_zone gives for the new and the old version of a zone file.
FactSet ==
    { [newOK |-> FALSE, oldOK |-> TRUE, sameHash |-> FALSE,
       oldSerial |-> PyStr(Big(7)), newSerial |-> PyStr(Big(8))],
      [newOK |-> TRUE, oldOK |-> FALSE, sameHash |-> FALSE,
       oldSerial |-> PyStr(Big(7)), newSerial |-> PyStr(Big(7))],
      [newOK |-> TRUE, oldOK |-> TRUE, sameHash |-> TRUE,
       oldSerial |-> PyStr(Big(7)), newSerial |-> PyStr(Big(7))],
      [newOK |-> TRUE, oldOK |-> TRUE, sameHash |-> FALSE,
       oldSerial |-> PyStr(Big(7)), newSerial |-> PyStr(Big(8))],
      [newOK |-> TRUE, oldOK |-> TRUE, sameHash |-> FALSE,
       oldSerial |-> PyStr(Big(7)), newSerial |-> PyStr(Big(7))] }

\* post_receive's configuration and input: dzonegit.checkoutpath set, stdin
\* a terminal, the ref pushed is master, dzonegit.reconfigcmd and
\* dzonegit.zonereloadcmd set.
HookConfs ==
    [checkoutpath : BOOLEAN, isatty : BOOLEAN, master : BOOLEAN,
     reconfigcmd : BOOLEAN, zonereloadcmd : BOOLEAN]

HookInit ==
    /\ clock \in {CHOOSE c \in Clocks : TRUE}
    /\ ticks = 0
    /\ SerialIdle
    /\ CliIdle
    /\ path = None
    /\ zonedata = <<>>
    /\ nameResult = None
    /\ allowfancynames \in {"unset", "true"}
    /\ WildIdle
    /\ changes \in ChangeSets
    /\ hookTodo = <<>>
    /\ hookErr = None
    /\ replaced = <<>>
    /\ should_reconfig = <<>>
    /\ zones_to_reload = <<>>
    /\ \/ /\ hookPc = "check"
          /\ facts \in [ZoneHookFiles -> FactSet]
          /\ autoupdate_serial \in BOOLEAN
          /\ hookConf = None
       \/ /\ hookPc = "post"
          /\ facts = <<>>
          /\ autoupdate_serial = FALSE
          /\ hookConf \in HookConfs

\* check_updated_zones, up to its loop
CheckStart ==
    /\ hookPc = "check"
    /\ hookTodo' = get_altered_files({"A", "M", "C", "R"})
    /\ hookPc' = "checking"
    /\ UNCHANGED <<changes, facts, autoupdate_serial, hookErr, replaced, hookConf,
                   postVars, timeVars, serialVars, cliVars, nameVars>>

\* The new revision of f fails: its name and origin differ, or it does not
\* compile.
NewFails(f) ==
    \/ get_zone_name(f, HookData(f), allowfancynames).raised
    \/ ~facts[f].newOK

\* The old revision of f exists and compiles, the contents differ and the
\* serial was not increased.
NotIncreased(f) ==
    /\ changes[f] # "A"
    /\ facts[f].oldOK
    /\ ~facts[f].sameHash
    /\ ~is_serial_increased(facts[f].oldSerial, facts[f].newSerial)

\* One turn of check_updated_zones' loop: a file that is no zone file is
\* skipped; the first HookException ends the loop and, in do_commit_checks,
\* the process.
CheckFile ==
    /\ hookPc = "checking"
    /\ hookTodo # <<>>
    /\ LET f == Head(hookTodo)
       IN  IF Suffix(f) # ".zone"
             THEN /\ hookTodo' = Tail(hookTodo)
                  /\ UNCHANGED <<checked, hookPc, hookErr, replaced>>
             ELSE /\ checked' = checked \cup {f}
                  /\ IF NewFails(f)
                       THEN /\ hookPc' = "failed"
                            /\ hookErr' = f
                            /\ UNCHANGED <<hookTodo, replaced>>
                       ELSE IF NotIncreased(f)
                              THEN /\ hookPc' = "failed"
                                   /\ hookErr' = f
                                   /\ \/ /\ autoupdate_serial
                                         /\ replaced' =
                                              Put(replaced, f,
                                                  get_increased_serial(
                                                      facts[f].newSerial, clock))
                                      \/ replaced' = replaced
                                   /\ UNCHANGED hookTodo
                              ELSE /\ hookTodo' = Tail(hookTodo)
                                   /\ UNCHANGED <<hookPc, hookErr, replaced>>
    /\ UNCHANGED <<changes, facts, autoupdate_serial, hookConf, postVars,
                   reconfigured, reloaded, timeVars, serialVars, fileVars,
                   procVars, nameVars>>

\* check_updated_zones returns
CheckEnd ==
    /\ hookPc = "checking"
    /\ hookTodo = <<>>
    /\ hookPc' = "passed"
    /\ UNCHANGED <<changes, facts, autoupdate_serial, hookTodo, hookErr, replaced,
                   hookConf, postVars, timeVars, serialVars, cliVars, nameVars>>

\* The zone files among the paths of a listing.
ZoneFilesOf(listing) ==
    { listing[i] : i \in { j \in DOMAIN listing : Suffix(listing[j]) = ".zone" } }

\* f.suffix == ".zone"
IsZoneFile(f) == Suffix(f) = ".zone"

\* The range of a list.
Range(list) == { list[i] : i \in DOMAIN list }

\* post_receive, for one line of its input: the two listings are taken, then
\* the reconfiguration commands are called if the first is not empty, then
\* the reload commands for every name of the second.
PostReceive ==
    /\ hookPc = "post"
    /\ IF ~hookConf.checkoutpath \/ hookConf.isatty
         THEN hookPc' = "exit" /\ UNCHANGED <<reconfigured, reloaded, postVars>>
         ELSE IF ~hookConf.master
                THEN hookPc' = "done" /\ UNCHANGED <<reconfigured, reloaded, postVars>>
                ELSE LET modified ==
                             SelectSeq(get_altered_files({"M"}), IsZoneFile)
                         named ==
                             [i \in DOMAIN modified |->
                                get_zone_name(modified[i], HookData(modified[i]),
                                              allowfancynames)]
                     IN  /\ should_reconfig' =
                              SelectSeq(get_altered_files({"A", "C", "D", "R", "U"}),
                                        IsZoneFile)
                         /\ IF \E i \in DOMAIN named : named[i].raised
                              THEN /\ hookPc' = "crashed"
                                   /\ UNCHANGED <<reconfigured, reloaded,
                                                  zones_to_reload>>
                              ELSE /\ hookPc' = "done"
                                   /\ zones_to_reload' =
                                        [i \in DOMAIN named |-> named[i].value]
                                   /\ reconfigured' =
                                        (should_reconfig' # <<>>
                                           /\ hookConf.reconfigcmd)
                                   /\ reloaded' =
                                        IF hookConf.zonereloadcmd
                                          THEN Range(zones_to_reload')
                                          ELSE {}
    /\ UNCHANGED <<changes, facts, autoupdate_serial, hookTodo, hookErr, replaced,
                   hookConf, checked, timeVars, serialVars, fileVars, procVars,
                   nameVars>>

HookNext == CheckStart \/ CheckFile \/ CheckEnd \/ PostReceive

SpecHooks == HookInit /\ [][HookNext]_vars

-----------------------------------------------------------------------------
(* Claims about the checks.                                                *)

\* The zone files a check has to look at.
FilesToCheck == ZoneFilesOf(get_altered_files({"A", "M", "C", "R"}))

\* C9: check processes every zone even after one zone has failed, and its
\* result is the conjunction of the per-zone results.
C9_CheckReportsAllZones ==
    hookPc \in {"passed", "failed"} =>
        /\ checked = FilesToCheck
        /\ hookPc = "passed" <=>
              \A f \in FilesToCheck : ~NewFails(f) /\ ~NotIncreased(f)

\* The result of check_updated_zones is the conjunction of the per-file
\* results, over the files up to the first that fails.
C9_StopsAtFirstFailure ==
    hookPc \in {"passed", "failed"} =>
        /\ hookPc = "passed" <=>
              \A f \in FilesToCheck : ~NewFails(f) /\ ~NotIncreased(f)
        /\ hookPc = "failed" =>
              /\ hookErr \in checked
              /\ NewFails(hookErr) \/ NotIncreased(hookErr)
              /\ \A f \in checked \ {hookErr} : ~NewFails(f) /\ ~NotIncreased(f)

-----------------------------------------------------------------------------
(* Claims about post_receive.                                              *)

\* post_receive has taken its two listings for a push to master.
Reconciled == hookPc = "done" /\ hookConf # None /\ hookConf.master

\* The changed zone files whose change class is one of classes.
ZoneFilesOfClass(classes) ==
    { f \in ZoneHookFiles \cap DOMAIN changes : changes[f] \in classes }

\* The names of the zones whose file's change class is modified.
ModifiedZones ==
    { get_zone_name(f, HookData(f), allowfancynames).value :
        f \in ZoneFilesOfClass({"M"}) }

\* One entry of the reload list per modified zone file, and no other.
ReloadListIsModified ==
    /\ Range(zones_to_reload) = ModifiedZones
    /\ Len(zones_to_reload) = Cardinality(ZoneFilesOfClass({"M"}))

-----------------------------------------------------------------------------
(* Claims about the wildcards of a zone name.                              *)

\* The positions of the dots of a string, and its number of dot-separated
\* labels.
Dots(str) == { i \in DOMAIN str : str[i] = "." }

LabelCount(str) == Cardinality(Dots(str)) + 1

\* The k-th dot of a string.
Dot(str, k) ==
    CHOOSE i \in Dots(str) : Cardinality({ j \in Dots(str) : j <= i }) = k

\* The item expected at position k = 0..n for a name of n labels: the name
\* itself, then * followed by the last n - k labels.
Expected(str, k) ==
    IF k = 0 THEN str
    ELSE IF k = LabelCount(str) THEN <<"*">>
    ELSE <<"*">> \o SubSeq(str, Dot(str, k), Len(str))

\* Item i is less specific than item i - 1: the first label replaced by *,
\* or one label less.
LessSpecific(items, i) ==
    /\ items[i] # items[i - 1]
    /\ items[i][1] = "*"
    /\ IF i = 2
         THEN /\ LabelCount(items[i]) = LabelCount(items[i - 1])
              /\ Tail(split(items[i])) = Tail(split(items[i - 1]))
         ELSE LabelCount(items[i]) = LabelCount(items[i - 1]) - 1

\* What has been yielded so far is the beginning of the expected series,
\* and all of it when the generator has returned.
WildShape ==
    wildPc # "idle" =>
        LET n == LabelCount(wname)
        IN  /\ Len(yielded) <= n + 1
            /\ \A i \in DOMAIN yielded : yielded[i] = Expected(wname, i - 1)
            /\ \A i \in 2..Len(yielded) : LessSpecific(yielded, i)
            /\ wildPc = "done" =>
                  /\ Len(yielded) = n + 1
                  /\ yielded[n + 1] = <<"*">>

\* C13: for a zone name with n dot-separated labels, wildcards(name)
\* terminates after yielding exactly n + 1 items: first the name itself,
\* then for k = 1..n the wildcard marker * followed by the last n - k
\* labels, so that each item is less specific than the one before and the
\* last item is the single *.
C13_Wildcards == []WildShape /\ <>(wildPc = "done")

\* C13 witness: the generator has returned for a.b.a, after four items.
C13_Witness ==
    /\ wildPc = "done"
    /\ wname = <<"a", ".", "b", ".", "a">>
    /\ yielded = << <<"a", ".", "b", ".", "a">>, <<"*", ".", "b", ".", "a">>,
                    <<"*", ".", "a">>, <<"*">> >>

-----------------------------------------------------------------------------
(* Claims about zone names.                                                *)

\* The $ORIGIN lines with no SOA record before them.
OriginsBeforeSOA(data) ==
    { i \in DOMAIN data :
        /\ data[i].k = "origin"
        /\ \A j \in 1..(i - 1) : data[j].k # "soa" }

====
